---- MODULE Spec2Model ----
(***************************************************************************)
(* Tic Tac Toe (src/tic_tac_toe_frontend/src/App.js): the rules            *)
(* (calculateWinner), the minimax search (getBestAIMove) and the game      *)
(* session held by the App component: mode, history, stepNumber,           *)
(* aiThinking and the deferred AI move scheduled by the effect.            *)
(*                                                                         *)
(* Every handler is one atomic action that includes the re-render it       *)
(* causes and the effect that re-render runs (cleanup of the previous      *)
(* timer, then the effect body).  The handlers are modelled as the         *)
(* functions of App.js; the `disabled` attributes of the buttons that call *)
(* them are not part of the handlers and are not modelled.                 *)
(***************************************************************************)
EXTENDS Integers, Sequences, FiniteSets, TLC

\* ---------------------------------------------------------------- bounds
\* In two-player mode the players click only the squares 0..TwoPlayerCells-1
\* (the first row and part of the second); in single-player mode the human
\* clicks any of the nine squares.
TwoPlayerCells == 5

\* ------------------------------------------------------------- constants
MODE_SINGLE_PLAYER == "Single Player (vs AI)"
MODE_TWO_PLAYER == "Two Player (Local)"
GAME_MODES == {MODE_SINGLE_PLAYER, MODE_TWO_PLAYER}
PLAYER_X == "X"
PLAYER_O == "O"
\* JavaScript null (an empty square, "no winner")
null == "null"
\* an absent or null idx of a search result ({score} or {idx: null, score})
NoIdx == -1
Cells == 0..8

getEmptyBoard == [i \in Cells |-> null]

\* the 8 lines in the order of the array literal
lines == << <<0,1,2>>, <<3,4,5>>, <<6,7,8>>,
            <<0,3,6>>, <<1,4,7>>, <<2,5,8>>,
            <<0,4,8>>, <<2,4,6>> >>

\* the test of the for loop's body for line number n
LineWins(bd, n) ==
  LET a == lines[n][1]
      b == lines[n][2]
      c == lines[n][3]
  IN bd[a] # null /\ bd[a] = bd[b] /\ bd[a] = bd[c]

\* calculateWinner whose loop does not stop at the first complete line: the
\* last one is returned
calculateWinner_LastLine(board) ==
  LET hits == {k \in 1..8 : LineWins(board, k)}
  IN IF hits # {}
       THEN LET last == CHOOSE k \in hits : \A j \in hits : k >= j
            IN [winner |-> board[lines[last][1]], line |-> last]
       ELSE IF \A i \in Cells : board[i] # null
              THEN [winner |-> "Draw", line |-> 0]
              ELSE [winner |-> null, line |-> 0]

\* calculateWinner that tests for the full board before it tests the lines
calculateWinner_DrawFirst(board) ==
  LET hits == {k \in 1..8 : LineWins(board, k)}
  IN IF \A i \in Cells : board[i] # null
       THEN [winner |-> "Draw", line |-> 0]
       ELSE IF hits # {}
              THEN LET first == CHOOSE k \in hits : \A j \in hits : k <= j
                   IN [winner |-> board[lines[first][1]], line |-> first]
              ELSE [winner |-> null, line |-> 0]

\* calculateWinner: the first line (in array order) that passes the test is
\* returned; otherwise 'Draw' on a full board; otherwise null (winner null).
\* line is the number 1..8 of the line, 0 for none.
calculateWinner(board) ==
  LET hits == {k \in 1..8 : LineWins(board, k)}
  IN IF hits # {}
       THEN LET first == CHOOSE k \in hits : \A j \in hits : k <= j
            IN [winner |-> board[lines[first][1]], line |-> first]
       ELSE IF \A i \in Cells : board[i] # null
              THEN [winner |-> "Draw", line |-> 0]
              ELSE [winner |-> null, line |-> 0]

\* the reduce with the comparison turned round: keeps the lowest score
RECURSIVE reduceMoves_Min(_,_,_)
reduceMoves_Min(moves, i, acc) ==
  IF i > 8 THEN acc
  ELSE IF \E m \in moves : m.idx = i
    THEN LET move == CHOOSE m \in moves : m.idx = i
         IN reduceMoves_Min(moves, i + 1,
                            IF acc.idx = NoIdx \/ move.score < acc.score THEN move ELSE acc)
    ELSE reduceMoves_Min(moves, i + 1, acc)

\* the reduce without the comparison of scores: keeps the first move
RECURSIVE reduceMoves_First(_,_,_)
reduceMoves_First(moves, i, acc) ==
  IF i > 8 THEN acc
  ELSE IF \E m \in moves : m.idx = i
    THEN LET move == CHOOSE m \in moves : m.idx = i
         IN reduceMoves_First(moves, i + 1, IF acc.idx = NoIdx THEN move ELSE acc)
    ELSE reduceMoves_First(moves, i + 1, acc)

\* the reduce with >= for >: keeps the last of the moves of greatest score
RECURSIVE reduceMoves_LastMax(_,_,_)
reduceMoves_LastMax(moves, i, acc) ==
  IF i > 8 THEN acc
  ELSE IF \E m \in moves : m.idx = i
    THEN LET move == CHOOSE m \in moves : m.idx = i
         IN reduceMoves_LastMax(moves, i + 1,
                                IF acc.idx = NoIdx \/ move.score >= acc.score THEN move ELSE acc)
    ELSE reduceMoves_LastMax(moves, i + 1, acc)

\* moves.reduce((acc, move) => acc == null || move.score > acc.score ? move : acc, null)
\* over the moves in array order, which is increasing idx; acc.idx = NoIdx
\* stands for the initial null accumulator.
RECURSIVE reduceMoves(_,_,_)
reduceMoves(moves, i, acc) ==
  IF i > 8 THEN acc
  ELSE IF \E m \in moves : m.idx = i
    THEN LET move == CHOOSE m \in moves : m.idx = i
         IN reduceMoves(moves, i + 1,
                        IF acc.idx = NoIdx \/ move.score > acc.score THEN move ELSE acc)
    ELSE reduceMoves(moves, i + 1, acc)

\* getBestAIMove that takes the opponent's score for its own (no negation)
RECURSIVE getBestAIMove_NoNegate(_,_,_)
getBestAIMove_NoNegate(board, aiPlayer, humanPlayer) ==
  LET result == calculateWinner(board)
      moves == {[idx |-> i,
                 score |-> getBestAIMove_NoNegate([board EXCEPT ![i] = aiPlayer],
                                                  humanPlayer, aiPlayer).score] :
                  i \in {j \in Cells : board[j] = null}}
  IN IF result.winner = aiPlayer THEN [idx |-> NoIdx, score |-> 1]
     ELSE IF result.winner = humanPlayer THEN [idx |-> NoIdx, score |-> -1]
     ELSE IF result.winner = "Draw" THEN [idx |-> NoIdx, score |-> 0]
     ELSE IF moves = {} THEN [idx |-> NoIdx, score |-> 0]
     ELSE reduceMoves(moves, 0, [idx |-> NoIdx, score |-> 0])

\* getBestAIMove: minimax with the roles swapped at each ply.
RECURSIVE getBestAIMove(_,_,_)
getBestAIMove(board, aiPlayer, humanPlayer) ==
  LET result == calculateWinner(board)
      moves == {[idx |-> i,
                 score |-> -getBestAIMove([board EXCEPT ![i] = aiPlayer],
                                          humanPlayer, aiPlayer).score] :
                  i \in {j \in Cells : board[j] = null}}
  IN IF result.winner = aiPlayer THEN [idx |-> NoIdx, score |-> 1]
     ELSE IF result.winner = humanPlayer THEN [idx |-> NoIdx, score |-> -1]
     ELSE IF result.winner = "Draw" THEN [idx |-> NoIdx, score |-> 0]
     ELSE IF moves = {} THEN [idx |-> NoIdx, score |-> 0]
     ELSE reduceMoves(moves, 0, [idx |-> NoIdx, score |-> 0])

\* ------------------------------------------------ the search, tabulated
\* The timer callback calls getBestAIMove(current.board, PLAYER_O, PLAYER_X).
\* Its results on the boards with O to move (one X more than O) are computed
\* once (@@ yields the tabulated function) and looked up; on any other board
\* the search is evaluated in place.
Count(board, m) == Cardinality({i \in Cells : board[i] = m})

OToMove(board) == Count(board, PLAYER_X) = Count(board, PLAYER_O) + 1

MemoBoards == {b \in [Cells -> {null, PLAYER_X, PLAYER_O}] : OToMove(b)}

AIMemo == [b \in MemoBoards |-> getBestAIMove(b, PLAYER_O, PLAYER_X)] @@ << >>

aiBest(board) ==
  IF OToMove(board)
    THEN AIMemo[board]
    ELSE getBestAIMove(board, PLAYER_O, PLAYER_X)

\* ------------------------------------------------------------ the session
VARIABLES
  mode,        \* useState(MODE_SINGLE_PLAYER)
  history,     \* useState([{board, xIsNext}]): a sequence, entry i at i + 1
  stepNumber,  \* useState(0): 0-based index into history
  aiThinking,  \* useState(false)
  timer,       \* the setTimeout of the effect: NoTimer, or the values of the
               \* render whose effect scheduled it (the callback's closure)
  lastOp       \* the last handler that ran: op names it ("move" is an applied
               \* click, "rejected" one that returned early), arg is the mode
               \* given to switchMode, step the step given to jumpTo, pending
               \* tells whether an AI move was scheduled when restart,
               \* switchMode or jumpTo ran, cut is the number of entries
               \* an applied move dropped from history (those after the
               \* step it was made at)

\* The pure functions calculateWinner and getBestAIMove are also applied on
\* their own, outside a session, to a board given as input:
VARIABLES
  fnBoard,     \* the board given to the function
  fnResult,    \* what calculateWinner returned for fnBoard, or NoResult
  fnBest,      \* what getBestAIMove returned for fnBoard and the player
               \* fnBest.aiPlayer, or NoBest
  fnSelf       \* every mark on fnBoard was put on the square getBestAIMove
               \* returned for the board before it

sessionVars == <<mode, history, stepNumber, aiThinking, timer, lastOp>>

fnVars == <<fnBoard, fnResult, fnBest, fnSelf>>

vars == <<mode, history, stepNumber, aiThinking, timer, lastOp,
          fnBoard, fnResult, fnBest, fnSelf>>

NoResult == [winner |-> "none", line |-> -1]

NoBest == [aiPlayer |-> "none", idx |-> NoIdx, score |-> 0]

\* no function is being applied on its own
FnIdle ==
  /\ fnBoard = getEmptyBoard
  /\ fnResult = NoResult
  /\ fnBest = NoBest
  /\ fnSelf = TRUE

InitHistory == << [board |-> getEmptyBoard, xIsNext |-> TRUE] >>

NoTimer == [mode |-> "none", history |-> << >>, stepNumber |-> -1, aiThinking |-> FALSE]

\* the values a render closes over
Render == [mode |-> mode, history |-> history, stepNumber |-> stepNumber,
           aiThinking |-> aiThinking]

Op(name) == [op |-> name, arg |-> "-", step |-> -1, pending |-> FALSE, cut |-> 0]

\* const current = history[stepNumber].  Outside the range JavaScript yields
\* undefined and the render would throw; C7_StepInRange shows the range is never
\* left, and the entry given here for that case is never used.
currentOf(r) ==
  IF r.stepNumber + 1 \in DOMAIN r.history
    THEN r.history[r.stepNumber + 1]
    ELSE [board |-> getEmptyBoard, xIsNext |-> TRUE]

\* const winner = winnerObj ? winnerObj.winner : null
winnerOf(r) == calculateWinner(currentOf(r).board).winner

\* handleSquareClick that appends to the whole history (no slice)
handleSquareClick_NoSlice(r, idx, isAI) ==
  LET cur == currentOf(r)
      board == [cur.board EXCEPT ![idx] = IF cur.xIsNext THEN PLAYER_X ELSE PLAYER_O]
      nextHistory == Append(r.history, [board |-> board, xIsNext |-> ~cur.xIsNext])
  IN IF \/ winnerOf(r) # null
        \/ cur.board[idx] # null
        \/ (r.mode = MODE_SINGLE_PLAYER /\ r.aiThinking /\ ~isAI)
       THEN [applied |-> FALSE, history |-> r.history, stepNumber |-> r.stepNumber]
     ELSE IF ~isAI /\ r.mode = MODE_SINGLE_PLAYER /\ ~cur.xIsNext
       THEN [applied |-> FALSE, history |-> r.history, stepNumber |-> r.stepNumber]
     ELSE [applied |-> TRUE, history |-> nextHistory, stepNumber |-> Len(nextHistory) - 1]

\* handleSquareClick without the test of the clicked square
handleSquareClick_NoOccupiedTest(r, idx, isAI) ==
  LET cur == currentOf(r)
      board == [cur.board EXCEPT ![idx] = IF cur.xIsNext THEN PLAYER_X ELSE PLAYER_O]
      nextHistory == Append(SubSeq(r.history, 1, r.stepNumber + 1),
                            [board |-> board, xIsNext |-> ~cur.xIsNext])
  IN IF \/ winnerOf(r) # null
        \/ (r.mode = MODE_SINGLE_PLAYER /\ r.aiThinking /\ ~isAI)
       THEN [applied |-> FALSE, history |-> r.history, stepNumber |-> r.stepNumber]
     ELSE IF ~isAI /\ r.mode = MODE_SINGLE_PLAYER /\ ~cur.xIsNext
       THEN [applied |-> FALSE, history |-> r.history, stepNumber |-> r.stepNumber]
     ELSE [applied |-> TRUE, history |-> nextHistory, stepNumber |-> Len(nextHistory) - 1]

\* handleSquareClick that takes every click for the AI's (isAI ignored)
handleSquareClick_IgnoresIsAI(r, idx, isAI) ==
  LET cur == currentOf(r)
      board == [cur.board EXCEPT ![idx] = IF cur.xIsNext THEN PLAYER_X ELSE PLAYER_O]
      nextHistory == Append(SubSeq(r.history, 1, r.stepNumber + 1),
                            [board |-> board, xIsNext |-> ~cur.xIsNext])
  IN IF winnerOf(r) # null \/ cur.board[idx] # null
       THEN [applied |-> FALSE, history |-> r.history, stepNumber |-> r.stepNumber]
     ELSE [applied |-> TRUE, history |-> nextHistory, stepNumber |-> Len(nextHistory) - 1]

\* handleSquareClick without the test of the winner
handleSquareClick_NoWinnerTest(r, idx, isAI) ==
  LET cur == currentOf(r)
      board == [cur.board EXCEPT ![idx] = IF cur.xIsNext THEN PLAYER_X ELSE PLAYER_O]
      nextHistory == Append(SubSeq(r.history, 1, r.stepNumber + 1),
                            [board |-> board, xIsNext |-> ~cur.xIsNext])
  IN IF \/ cur.board[idx] # null
        \/ (r.mode = MODE_SINGLE_PLAYER /\ r.aiThinking /\ ~isAI)
       THEN [applied |-> FALSE, history |-> r.history, stepNumber |-> r.stepNumber]
     ELSE IF ~isAI /\ r.mode = MODE_SINGLE_PLAYER /\ ~cur.xIsNext
       THEN [applied |-> FALSE, history |-> r.history, stepNumber |-> r.stepNumber]
     ELSE [applied |-> TRUE, history |-> nextHistory, stepNumber |-> Len(nextHistory) - 1]

\* handleSquareClick(idx, isAI) run in the closure r: applied is FALSE when
\* one of the two early returns is taken, and then nothing is set.
handleSquareClick(r, idx, isAI) ==
  LET current == currentOf(r)
      board == [current.board EXCEPT ![idx] = IF current.xIsNext THEN PLAYER_X ELSE PLAYER_O]
      nextHistory == Append(SubSeq(r.history, 1, r.stepNumber + 1),
                            [board |-> board, xIsNext |-> ~current.xIsNext])
  IN IF \/ winnerOf(r) # null
        \/ current.board[idx] # null
        \/ (r.mode = MODE_SINGLE_PLAYER /\ r.aiThinking /\ ~isAI)
       THEN [applied |-> FALSE, history |-> r.history, stepNumber |-> r.stepNumber]
     ELSE IF ~isAI /\ r.mode = MODE_SINGLE_PLAYER /\ ~current.xIsNext
       THEN [applied |-> FALSE, history |-> r.history, stepNumber |-> r.stepNumber]
     ELSE [applied |-> TRUE, history |-> nextHistory, stepNumber |-> Len(nextHistory) - 1]

\* the effect without setTimeout: the flag is set, no move is scheduled
aiEffect_NoTimer(r, depsChanged, oldTimer) ==
  IF ~depsChanged
    THEN [aiThinking |-> r.aiThinking, timer |-> oldTimer]
  ELSE IF r.mode = MODE_SINGLE_PLAYER /\ winnerOf(r) = null /\ ~currentOf(r).xIsNext
    THEN [aiThinking |-> TRUE, timer |-> NoTimer]
  ELSE [aiThinking |-> r.aiThinking, timer |-> NoTimer]

\* the effect without its cleanup: a scheduled timer is only replaced by a
\* new one, never cleared
aiEffect_NoCleanup(r, depsChanged, oldTimer) ==
  IF ~depsChanged
    THEN [aiThinking |-> r.aiThinking, timer |-> oldTimer]
  ELSE IF r.mode = MODE_SINGLE_PLAYER /\ winnerOf(r) = null /\ ~currentOf(r).xIsNext
    THEN [aiThinking |-> TRUE, timer |-> r]
  ELSE [aiThinking |-> r.aiThinking, timer |-> oldTimer]

\* The AI effect as run after the render r that follows a state change.
\* depsChanged: one of [current, winner, mode] differs from the previous
\* render; then the previous cleanup clears the old timer and the body runs.
\* Result: the aiThinking and timer after the effect.
aiEffect(r, depsChanged, oldTimer) ==
  IF ~depsChanged
    THEN [aiThinking |-> r.aiThinking, timer |-> oldTimer]
  ELSE IF r.mode = MODE_SINGLE_PLAYER /\ winnerOf(r) = null /\ ~currentOf(r).xIsNext
    THEN [aiThinking |-> TRUE, timer |-> r]
  ELSE [aiThinking |-> r.aiThinking, timer |-> NoTimer]

\* the state of the hooks after the first render
SessionInit ==
  /\ mode = MODE_SINGLE_PLAYER
  /\ history = InitHistory
  /\ stepNumber = 0
  /\ aiThinking = FALSE
  /\ timer = NoTimer
  /\ lastOp = Op("init")

Init == SessionInit /\ FnIdle

\* a human clicks square idx: handleSquareClick(idx) in the latest render.
\* An applied click stores a new entry object, so `current` changes.
HumanClick(idx) ==
  /\ mode = MODE_TWO_PLAYER => idx < TwoPlayerCells
  /\ LET res == handleSquareClick(Render, idx, FALSE)
         r2 == [mode |-> mode, history |-> res.history,
                stepNumber |-> res.stepNumber, aiThinking |-> aiThinking]
         eff == aiEffect(r2, res.applied, timer)
     IN /\ history' = res.history
        /\ stepNumber' = res.stepNumber
        /\ aiThinking' = eff.aiThinking
        /\ timer' = eff.timer
        /\ lastOp' = IF res.applied
                       THEN [Op("move") EXCEPT !.cut = Len(history) - stepNumber - 1]
                       ELSE Op("rejected")
  /\ UNCHANGED mode
  /\ UNCHANGED fnVars

\* the timer fires: the callback of the effect, in the closure it was made
\* in; then setAIThinking(false), the render and its effect
AITimer ==
  /\ timer # NoTimer
  /\ \E best \in {aiBest(currentOf(timer).board)} :
     \E res \in {IF best.idx # NoIdx /\ currentOf(timer).board[best.idx] = null
                   THEN handleSquareClick(timer, best.idx, TRUE)
                   ELSE [applied |-> FALSE, history |-> history, stepNumber |-> stepNumber]} :
     \E r2 \in {[mode |-> mode,
                 history |-> IF res.applied THEN res.history ELSE history,
                 stepNumber |-> IF res.applied THEN res.stepNumber ELSE stepNumber,
                 aiThinking |-> FALSE]} :
     \E eff \in {aiEffect(r2, res.applied, NoTimer)} :
        /\ history' = r2.history
        /\ stepNumber' = r2.stepNumber
        /\ aiThinking' = eff.aiThinking
        /\ timer' = eff.timer
        /\ lastOp' = IF res.applied
                       THEN [Op("ai") EXCEPT !.cut = Len(timer.history) - timer.stepNumber - 1]
                       ELSE Op("aiNone")
  /\ UNCHANGED mode
  /\ UNCHANGED fnVars

\* jumpTo whose buttons only work while the displayed game is ongoing
jumpTo_OnlyWhileOngoing(step) ==
  /\ step \in 0..(Len(history) - 1)
  /\ winnerOf(Render) = null
  /\ LET r2 == [mode |-> mode, history |-> history, stepNumber |-> step,
                aiThinking |-> aiThinking]
         eff == aiEffect(r2, step # stepNumber, timer)
     IN /\ stepNumber' = step
        /\ aiThinking' = eff.aiThinking
        /\ timer' = eff.timer
  /\ lastOp' = [op |-> "jump", arg |-> "-", step |-> step, pending |-> timer # NoTimer, cut |-> 0]
  /\ UNCHANGED <<mode, history>>
  /\ UNCHANGED fnVars

\* jumpTo after which the effect is not run again (as with `current` missing
\* from its dependencies): a scheduled timer stays, none is scheduled
jumpTo_StaleEffect(step) ==
  /\ step \in 0..(Len(history) - 1)
  /\ LET r2 == [mode |-> mode, history |-> history, stepNumber |-> step,
                aiThinking |-> aiThinking]
         eff == aiEffect(r2, FALSE, timer)
     IN /\ stepNumber' = step
        /\ aiThinking' = eff.aiThinking
        /\ timer' = eff.timer
  /\ lastOp' = [op |-> "jump", arg |-> "-", step |-> step, pending |-> timer # NoTimer, cut |-> 0]
  /\ UNCHANGED <<mode, history>>
  /\ UNCHANGED fnVars

\* jumpTo(step) from a button of the history panel; setting stepNumber to
\* its own value causes no render.
jumpTo(step) ==
  /\ step \in 0..(Len(history) - 1)
  /\ LET r2 == [mode |-> mode, history |-> history, stepNumber |-> step,
                aiThinking |-> aiThinking]
         eff == aiEffect(r2, step # stepNumber, timer)
     IN /\ stepNumber' = step
        /\ aiThinking' = eff.aiThinking
        /\ timer' = eff.timer
  /\ lastOp' = [op |-> "jump", arg |-> "-", step |-> step, pending |-> timer # NoTimer, cut |-> 0]
  /\ UNCHANGED <<mode, history>>
  /\ UNCHANGED fnVars

\* handleRestart without setStepNumber(0)
handleRestart_KeepsStep ==
  /\ LET r2 == [mode |-> mode, history |-> InitHistory, stepNumber |-> stepNumber,
                aiThinking |-> FALSE]
         eff == aiEffect(r2, TRUE, timer)
     IN /\ history' = r2.history
        /\ stepNumber' = r2.stepNumber
        /\ aiThinking' = eff.aiThinking
        /\ timer' = eff.timer
  /\ lastOp' = [op |-> "restart", arg |-> "-", step |-> -1, pending |-> timer # NoTimer, cut |-> 0]
  /\ UNCHANGED mode
  /\ UNCHANGED fnVars

\* handleRestart: the new history holds a new entry object
handleRestart ==
  /\ LET r2 == [mode |-> mode, history |-> InitHistory, stepNumber |-> 0,
                aiThinking |-> FALSE]
         eff == aiEffect(r2, TRUE, timer)
     IN /\ history' = r2.history
        /\ stepNumber' = r2.stepNumber
        /\ aiThinking' = eff.aiThinking
        /\ timer' = eff.timer
  /\ lastOp' = [op |-> "restart", arg |-> "-", step |-> -1, pending |-> timer # NoTimer, cut |-> 0]
  /\ UNCHANGED mode
  /\ UNCHANGED fnVars

\* switchMode without the call of handleRestart
switchMode_NoRestart(newMode) ==
  /\ LET r2 == [mode |-> newMode, history |-> history, stepNumber |-> stepNumber,
                aiThinking |-> aiThinking]
         eff == aiEffect(r2, newMode # mode, timer)
     IN /\ mode' = newMode
        /\ aiThinking' = eff.aiThinking
        /\ timer' = eff.timer
  /\ lastOp' = [op |-> "switch", arg |-> newMode, step |-> -1, pending |-> timer # NoTimer, cut |-> 0]
  /\ UNCHANGED <<history, stepNumber>>
  /\ UNCHANGED fnVars

\* switchMode(newMode): setMode(newMode); handleRestart()
switchMode(newMode) ==
  /\ LET r2 == [mode |-> newMode, history |-> InitHistory, stepNumber |-> 0,
                aiThinking |-> FALSE]
         eff == aiEffect(r2, TRUE, timer)
     IN /\ mode' = newMode
        /\ history' = r2.history
        /\ stepNumber' = r2.stepNumber
        /\ aiThinking' = eff.aiThinking
        /\ timer' = eff.timer
  /\ lastOp' = [op |-> "switch", arg |-> newMode, step |-> -1, pending |-> timer # NoTimer, cut |-> 0]
  /\ UNCHANGED fnVars

Next ==
  \/ \E idx \in Cells : HumanClick(idx)
  \/ AITimer
  \/ \E step \in 0..9 : jumpTo(step)
  \/ handleRestart
  \/ \E newMode \in GAME_MODES : switchMode(newMode)

Spec == Init /\ [][Next]_vars

\* the timeout of a scheduled AI move elapses unless the move is cancelled
LiveSpec == Spec /\ WF_vars(AITimer)

\* the values of the latest render
current == currentOf(Render)
winner == winnerOf(Render)
Mark(entry) == IF entry.xIsNext THEN PLAYER_X ELSE PLAYER_O

TypeOK ==
  /\ mode \in GAME_MODES
  /\ stepNumber \in 0..9
  /\ aiThinking \in BOOLEAN
  /\ Len(history) \in 1..10

\* ------------------------------------- the functions applied on their own
\* the player to move on a board of alternating play that X began
\* (xIsNext of the entry that holds the board)
XToMove(b) == Count(b, PLAYER_X) = Count(b, PLAYER_O)

toMove(b) == IF XToMove(b) THEN PLAYER_X ELSE PLAYER_O

other(p) == IF p = PLAYER_X THEN PLAYER_O ELSE PLAYER_X

\* getBestAIMove(b, p, other(p)), looked up where it is tabulated
searchOf(b, p) ==
  IF p = PLAYER_O THEN aiBest(b) ELSE getBestAIMove(b, p, other(p))

\* no function has been applied to fnBoard yet
Fresh == fnResult = NoResult /\ fnBest = NoBest

\* calculateWinner(fnBoard)
Evaluate ==
  /\ Fresh
  /\ fnResult' = calculateWinner(fnBoard)
  /\ UNCHANGED <<fnBoard, fnBest, fnSelf>>
  /\ UNCHANGED sessionVars

\* getBestAIMove(fnBoard, p, other(p))
Search(p) ==
  /\ Fresh
  /\ \E best \in {searchOf(fnBoard, p)} :
       fnBest' = [aiPlayer |-> p, idx |-> best.idx, score |-> best.score]
  /\ UNCHANGED <<fnBoard, fnResult, fnSelf>>
  /\ UNCHANGED sessionVars

\* a move that is also made on a finished board (no test of the winner)
Play_AfterWin(c) ==
  /\ Fresh
  /\ fnBoard[c] = null
  /\ fnBoard' = [fnBoard EXCEPT ![c] = toMove(fnBoard)]
  /\ fnSelf' = FALSE
  /\ UNCHANGED <<fnResult, fnBest>>
  /\ UNCHANGED sessionVars

\* a legal move: the player to move marks the empty square c of an ongoing
\* board (the rule of handleSquareClick)
Play(c) ==
  /\ Fresh
  /\ calculateWinner(fnBoard).winner = null
  /\ fnBoard[c] = null
  /\ fnBoard' = [fnBoard EXCEPT ![c] = toMove(fnBoard)]
  /\ fnSelf' = FALSE
  /\ UNCHANGED <<fnResult, fnBest>>
  /\ UNCHANGED sessionVars

\* the player to move marks the square getBestAIMove returned, as the timer
\* callback does with the result (idx not null and the square empty)
PlayBest ==
  /\ fnBest # NoBest
  /\ fnBest.idx # NoIdx
  /\ fnBoard[fnBest.idx] = null
  /\ fnBoard' = [fnBoard EXCEPT ![fnBest.idx] = fnBest.aiPlayer]
  /\ fnBest' = NoBest
  /\ UNCHANGED <<fnResult, fnSelf>>
  /\ UNCHANGED sessionVars

\* legal play from the empty board, the functions applied to every board
\* it reaches (getBestAIMove for the player to move)
PlayNext ==
  \/ Evaluate
  \/ Search(toMove(fnBoard))
  \/ \E c \in Cells : Play(c)
  \/ PlayBest

PlaySpec == Init /\ [][PlayNext]_vars

AllBoards == [Cells -> {null, PLAYER_X, PLAYER_O}]

\* the functions applied to any board over {null, X, O}
BoardInit ==
  /\ SessionInit
  /\ fnBoard \in AllBoards
  /\ fnResult = NoResult
  /\ fnBest = NoBest
  /\ fnSelf = FALSE

\* getBestAIMove is applied for either player to a finished board, and to an
\* ongoing board for the player whose move it is by the numbers of marks
SearchFor(p) ==
  /\ IF calculateWinner(fnBoard).winner # null
       THEN TRUE
       ELSE IF p = PLAYER_X THEN XToMove(fnBoard) ELSE OToMove(fnBoard)
  /\ Search(p)

BoardNext ==
  \/ Evaluate
  \/ \E p \in {PLAYER_X, PLAYER_O} : SearchFor(p)

BoardSpec == BoardInit /\ [][BoardNext]_vars

\* ------------------------------------------------------------------- C1
\* C1: an applied playMove made at stepNumber = k yields the old entries
\* 0..k unchanged followed by exactly one new entry (length k + 2 whatever
\* the old length was); the new board is the board of entry k with the
\* clicked square holding the mark of the player to move at k, the new
\* xIsNext is the opposite of entry k's, and stepNumber becomes k + 1.
AppliedMove(c) ==
  LET k == stepNumber
      old == history[k + 1]
  IN /\ Len(history') = k + 2
     /\ SubSeq(history', 1, k + 1) = SubSeq(history, 1, k + 1)
     /\ old.board[c] = null
     /\ history'[k + 2].board = [old.board EXCEPT ![c] = Mark(old)]
     /\ history'[k + 2].xIsNext = ~old.xIsNext
     /\ stepNumber' = k + 1

C1_MoveTruncatesAndAppends ==
  [][/\ \A idx \in Cells : (lastOp'.op = "move" /\ HumanClick(idx)) => AppliedMove(idx)
     /\ lastOp'.op = "ai" => \E c \in Cells : AppliedMove(c)]_vars

\* a human move has just been applied as the fourth or a later entry
C1_Witness ==
  /\ lastOp.op = "move"
  /\ stepNumber = Len(history) - 1
  /\ stepNumber >= 3

\* ------------------------------------------------------------------- C2
\* C2: in every reachable session, handleSquareClick (human or AI-tagged, in
\* either mode) on a square that is occupied on the board at stepNumber, or
\* called when the board at stepNumber has a winner or is a draw, returns
\* early: history and stepNumber stay as they are.
C2_OccupiedOrTerminalRejected ==
  \A idx \in Cells : \A isAI \in BOOLEAN :
    (current.board[idx] # null \/ winner # null) =>
      LET res == handleSquareClick(Render, idx, isAI)
      IN ~res.applied /\ res.history = history /\ res.stepNumber = stepNumber

\* a click has just been rejected on a finished game in two-player mode
C2_Witness ==
  /\ lastOp.op = "rejected"
  /\ mode = MODE_TWO_PLAYER
  /\ winner = PLAYER_X

\* ------------------------------------------------------------------- C3
\* C3: in single-player mode every applied human click happens at a step
\* where X is to move and while no AI move is scheduled (a human click while
\* O is to move or while the AI move is pending changes nothing), so the mark
\* a human click places is never an O.
C3_HumanNeverPlaysO ==
  [][(mode = MODE_SINGLE_PLAYER /\ lastOp'.op = "move") =>
       /\ current.xIsNext
       /\ timer = NoTimer
       /\ \A c \in Cells : history'[Len(history')].board[c] # current.board[c]
                            => history'[Len(history')].board[c] = PLAYER_X]_vars

\* a human click has just been rejected while the AI move was scheduled
C3_Witness ==
  /\ lastOp.op = "rejected"
  /\ mode = MODE_SINGLE_PLAYER
  /\ timer # NoTimer
  /\ ~current.xIsNext
  /\ winner = null

\* ------------------------------------------------------------------- C4
\* C4: a human click is applied whenever none of the listed failure
\* conditions holds: the board at stepNumber is ongoing, the square is
\* empty, it is not single-player mode with O to move, and no AI move is
\* scheduled.
C4_HumanClickApplied ==
  \A idx \in Cells :
    ( /\ winner = null
      /\ current.board[idx] = null
      /\ ~(mode = MODE_SINGLE_PLAYER /\ ~current.xIsNext)
      /\ timer = NoTimer )
    => handleSquareClick(Render, idx, FALSE).applied

\* ------------------------------------------------------------------- C5
\* C5: whenever the session is in single-player mode with the board at
\* stepNumber ongoing and O to move, then (the timeout being fair) the AI move
\* is eventually applied unless a user action changes the displayed state
\* first; the AI move puts an O on the square getBestAIMove returns for the
\* displayed board, by the rule of an applied move, and afterwards it is no
\* longer O's turn on an ongoing board.
AITurn == mode = MODE_SINGLE_PLAYER /\ winner = null /\ ~current.xIsNext

AIMoved ==
  /\ lastOp.op = "ai"
  /\ stepNumber = Len(history) - 1
  /\ stepNumber >= 2
  /\ LET before == history[stepNumber].board
     IN /\ ~history[stepNumber].xIsNext
        /\ before[aiBest(before).idx] = null
        /\ current.board = [before EXCEPT ![aiBest(before).idx] = PLAYER_O]
  /\ ~AITurn

C6_ResetDiscardsScheduledMove ==
  [][/\ lastOp'.op \in {"restart", "switch"} =>
          /\ history' = InitHistory
          /\ stepNumber' = 0
          /\ timer' = NoTimer
     /\ (history = InitHistory /\ history' # InitHistory) =>
          /\ lastOp'.op = "move"
          /\ Len(history') = 2
          /\ Count(history'[2].board, PLAYER_X) = 1
          /\ Count(history'[2].board, PLAYER_O) = 0]_vars

\* a restart has just run while an AI move was scheduled
C6_Witness ==
  /\ lastOp.op = "restart"
  /\ lastOp.pending
  /\ history = InitHistory

\* ------------------------------------------------------------------- C7
\* C7: in every reachable state 0 <= stepNumber < history.length.
C7_StepInRange == 0 <= stepNumber /\ stepNumber < Len(history)

\* a full game is displayed at its last step
C7_Witness == Len(history) = 10 /\ stepNumber = 9

\* ------------------------------------------------------------------- C8
\* C8: jumpTo(step) is possible for every step in [0, history.length) in
\* every reachable state (also on a finished game and while an AI move is
\* scheduled); it sets stepNumber to step and leaves history and mode as
\* they are.
C8_JumpToAlwaysLegal ==
  \A step \in 0..(Len(history) - 1) :
    ENABLED (jumpTo(step) /\ stepNumber' = step /\ history' = history /\ mode' = mode)

\* a jump back has just been made on a finished game
C8_Witness ==
  /\ lastOp.op = "jump"
  /\ stepNumber < Len(history) - 1
  /\ calculateWinner(history[Len(history)].board).winner # null

\* ------------------------------------------------------------------- C9
\* C9: after switchMode(m), for any m (also the active mode), the mode is m,
\* history is the single entry with the empty board and X to move,
\* stepNumber is 0, aiThinking is false and no AI move is scheduled.
C9_SwitchModeResets ==
  [][lastOp'.op = "switch" =>
       /\ mode' = lastOp'.arg
       /\ history' = InitHistory
       /\ stepNumber' = 0
       /\ ~aiThinking'
       /\ timer' = NoTimer]_vars

\* switchMode to the active mode has just run on a game in progress (an AI
\* move was scheduled)
C9_Witness ==
  /\ lastOp.op = "switch"
  /\ lastOp.pending
  /\ lastOp.arg = MODE_SINGLE_PLAYER

\* ------------------------------------------------------------------ C10
\* C10: in single-player mode no entry of history has a board that X has
\* won.
C10_AINeverLoses ==
  mode = MODE_SINGLE_PLAYER =>
    \A i \in 1..Len(history) : calculateWinner(history[i].board).winner # PLAYER_X

\* a single-player game played to the end: the board is full and drawn
C10_Witness ==
  /\ mode = MODE_SINGLE_PLAYER
  /\ Len(history) = 10
  /\ winner = "Draw"

\* ------------------------------------------------------------------ C11
\* C11: from the empty board with X to move, when every move of both sides
\* is the one getBestAIMove returns for the player to move (roles swapped
\* each ply), the game ends, after at most 9 moves, on a board that
\* calculateWinner gives as a Draw: no board of this game is won by either
\* player, and on each of its ongoing boards getBestAIMove returns an empty
\* square, so that the game goes on until the board is full.
C11_SelfPlayEndsInDraw ==
  fnSelf =>
    /\ calculateWinner(fnBoard).winner \in {null, "Draw"}
    /\ (calculateWinner(fnBoard).winner = null /\ fnBest # NoBest) =>
          /\ fnBest.idx \in Cells
          /\ fnBoard[fnBest.idx] = null

\* the self-played game has ended: nine moves made, a Draw
C11_Witness ==
  /\ fnSelf
  /\ Count(fnBoard, null) = 0
  /\ fnResult = [winner |-> "Draw", line |-> 0]

\* ------------------------------------------------------------------ C12
\* the empty squares of b that complete a line of p when p marks them
ImmediateWins(b, p) ==
  {c \in Cells : b[c] = null /\ calculateWinner([b EXCEPT ![c] = p]).winner = p}

\* C12: on every ongoing board of legal play, if the player to move has a
\* square that completes a line at once, the square getBestAIMove returns
\* is such a square.
C12_ImmediateWinTaken ==
  ( /\ fnBest # NoBest
    /\ calculateWinner(fnBoard).winner = null
    /\ ImmediateWins(fnBoard, fnBest.aiPlayer) # {} )
  => fnBest.idx \in ImmediateWins(fnBoard, fnBest.aiPlayer)

\* C12 as amended: on every ongoing board of legal play, if the player to
\* move has a square that completes a line at once, getBestAIMove returns
\* score 1 and an empty square from which the opponent's own search gives
\* -1 (the player wins with it against any play); the square is numbered no
\* higher than any square that wins at once, and it is one of them unless a
\* lower-numbered square also wins against any play.
C12_ImmediateWinGivesWinningMove ==
  ( /\ fnBest # NoBest
    /\ calculateWinner(fnBoard).winner = null
    /\ ImmediateWins(fnBoard, fnBest.aiPlayer) # {} )
  => /\ fnBest.score = 1
     /\ fnBest.idx \in Cells
     /\ fnBoard[fnBest.idx] = null
     /\ \A c \in ImmediateWins(fnBoard, fnBest.aiPlayer) : fnBest.idx <= c
     /\ searchOf([fnBoard EXCEPT ![fnBest.idx] = fnBest.aiPlayer],
                 other(fnBest.aiPlayer)).score = -1
     /\ \A c \in 0..(fnBest.idx - 1) :
          fnBoard[c] = null =>
            searchOf([fnBoard EXCEPT ![c] = fnBest.aiPlayer],
                     other(fnBest.aiPlayer)).score > -1

\* O is to move with a line to complete, and the search returns that square
C12_Witness ==
  /\ fnBest.aiPlayer = PLAYER_O
  /\ calculateWinner(fnBoard).winner = null
  /\ fnBest.idx \in ImmediateWins(fnBoard, PLAYER_O)

\* ------------------------------------------------------------------ C13
\* the complete lines of a board, by their place in the order in which they are tested
CompleteLines(b) == {k \in 1..8 : LineWins(b, k)}

\* C13: on every board of legal play at most one of the 8 lines is
\* complete, so that the line calculateWinner reports does not depend on
\* the order in which the lines are tested.
C13_AtMostOneLine == Cardinality(CompleteLines(fnBoard)) <= 1

\* C13 as amended: on every board of legal play at most two of the 8 lines
\* are complete; two complete lines hold the same mark, that of the player
\* who moved last, and cross in one square; so the winner calculateWinner
\* reports does not depend on the order of the tests, while the line it
\* reports is the first complete one in that order.
C13_AtMostTwoLinesOneWinner ==
  LET hits == CompleteLines(fnBoard)
  IN /\ Cardinality(hits) <= 2
     /\ \A k \in hits : fnBoard[lines[k][1]] = other(toMove(fnBoard))
     /\ \A j, k \in hits :
          j # k => Cardinality({lines[j][n] : n \in 1..3} \cap
                               {lines[k][n] : n \in 1..3}) = 1
     /\ fnResult # NoResult =>
          /\ fnResult.line # 0 <=> hits # {}
          /\ \A k \in hits : fnResult.winner = fnBoard[lines[k][1]]
          /\ \A k \in hits : fnResult.line <= k

\* calculateWinner has been applied to a board of legal play with two
\* complete lines
C13_Witness ==
  /\ Cardinality(CompleteLines(fnBoard)) = 2
  /\ fnResult.winner = PLAYER_X

\* ------------------------------------------------------------------ C14
\* the squares of the 8 lines in the order rows 0-2, columns
\* 0-2, the diagonal 0-4-8, the diagonal 2-4-6
LineCells(k) ==
  IF k \in 1..3 THEN {3 * (k - 1), 3 * (k - 1) + 1, 3 * (k - 1) + 2}
  ELSE IF k \in 4..6 THEN {k - 4, k - 1, k + 2}
  ELSE IF k = 7 THEN {0, 4, 8}
  ELSE {2, 4, 6}

\* the three squares of line k hold the mark m
LineOf(b, k, m) == \A c \in LineCells(k) : b[c] = m

\* C14: for every board over {null, X, O} (all 3^9), calculateWinner
\* returns the mark M and the line L where L is the first line, in the order
\* rows 0-2, columns 0-2, diagonal 0-4-8, diagonal 2-4-6, whose three squares
\* hold the same mark M; if no line is complete it returns Draw exactly when
\* no square is empty, and null (ongoing) otherwise.
C14_EvaluateFirstLine ==
  fnResult # NoResult =>
    LET done == {k \in 1..8 : \E m \in {PLAYER_X, PLAYER_O} : LineOf(fnBoard, k, m)}
    IN IF done # {}
         THEN /\ fnResult.line \in done
              /\ \A k \in done : fnResult.line <= k
              /\ fnResult.winner \in {PLAYER_X, PLAYER_O}
              /\ LineOf(fnBoard, fnResult.line, fnResult.winner)
              /\ LineCells(fnResult.line) =
                   {lines[fnResult.line][n] : n \in 1..3}
         ELSE /\ fnResult.line = 0
              /\ fnResult.winner = "Draw" <=> (\A c \in Cells : fnBoard[c] # null)
              /\ fnResult.winner = null <=> (\E c \in Cells : fnBoard[c] = null)

\* calculateWinner has been applied to a board that holds a complete column
\* of O and, later in the order, a complete column of X: it returned O's
C14_Witness ==
  /\ LineOf(fnBoard, 4, PLAYER_O)
  /\ LineOf(fnBoard, 6, PLAYER_X)
  /\ fnResult = [winner |-> PLAYER_O, line |-> 4]

\* ------------------------------------------------------------------ C15
\* the score of square c for player p on board b: the negated score of the
\* opponent's search on the board with c marked by p
ChildScore(b, p, c) == -searchOf([b EXCEPT ![c] = p], other(p)).score

\* C15: for every ongoing board and the player to move on it, getBestAIMove
\* returns an empty square; its score is the greatest, over the empty
\* squares c, of the negated score of the search on the board with c marked
\* by the searching player and the roles swapped; and the square is the
\* lowest-numbered empty square with that score.
C15_BestIsFirstMaximum ==
  (fnBest # NoBest /\ calculateWinner(fnBoard).winner = null) =>
    LET p == fnBest.aiPlayer
        empty == {c \in Cells : fnBoard[c] = null}
    IN /\ fnBest.idx \in empty
       /\ fnBest.score = ChildScore(fnBoard, p, fnBest.idx)
       /\ \A c \in empty : ChildScore(fnBoard, p, c) <= fnBest.score
       /\ \A c \in empty : ChildScore(fnBoard, p, c) = fnBest.score => fnBest.idx <= c

\* the search has returned square 4 for a board on which the lower-numbered
\* empty square 0 scores less and the higher-numbered empty square 8 the same
C15_Witness ==
  /\ fnBest # NoBest
  /\ calculateWinner(fnBoard).winner = null
  /\ fnBest.idx = 4
  /\ fnBoard[0] = null
  /\ fnBoard[8] = null
  /\ ChildScore(fnBoard, fnBest.aiPlayer, 0) < fnBest.score
  /\ ChildScore(fnBoard, fnBest.aiPlayer, 8) = fnBest.score

\* ------------------------------------------------------------------ C16
\* C16: for every board that calculateWinner does not give as ongoing,
\* getBestAIMove(board, p, other(p)) returns no square, and the score 1 if
\* the winning mark is p, -1 if it is the opponent's, 0 for a Draw; a full
\* board with a complete line is scored as a win (1 or -1), not as a draw.
C16_TerminalScores ==
  LET w == calculateWinner(fnBoard).winner
      p == fnBest.aiPlayer
  IN (fnBest # NoBest /\ w # null) =>
       /\ fnBest.idx = NoIdx
       /\ w = p => fnBest.score = 1
       /\ w = other(p) => fnBest.score = -1
       /\ w = "Draw" => fnBest.score = 0
       /\ w \in {p, other(p), "Draw"}
       /\ ( /\ \A c \in Cells : fnBoard[c] # null
            /\ \E k \in 1..8 : LineWins(fnBoard, k) )
          => \A k \in 1..8 :
               (LineWins(fnBoard, k) /\ \A j \in 1..(k - 1) : ~LineWins(fnBoard, j))
               => fnBest.score = IF fnBoard[lines[k][1]] = p THEN 1 ELSE -1

\* the search for X has been applied to a full board with a complete line
\* of O
C16_Witness ==
  /\ fnBest.aiPlayer = PLAYER_X
  /\ \A c \in Cells : fnBoard[c] # null
  /\ \E k \in 1..8 : LineWins(fnBoard, k)
  /\ fnBest.score = -1
  /\ fnBest.idx = NoIdx

\* ------------------------------------------------------------------ C17
\* C17: in every reachable state aiThinking is true only if an AI move is
\* scheduled: the mode is single-player, the board at stepNumber is ongoing
\* with O to move, and the timer is outstanding; so aiThinking is false
\* whenever X is to move at stepNumber, also after a jumpTo made while the
\* AI move was scheduled.
C17_ThinkingOnlyWhenScheduled ==
  aiThinking =>
    /\ mode = MODE_SINGLE_PLAYER
    /\ winner = null
    /\ ~current.xIsNext
    /\ timer # NoTimer

\* ------------------------------------------------------------------ C18
\* C18: in every reachable state, for every index i of history: entry 0 is
\* the empty board with X to move; entry i has exactly i marked squares, of
\* which ceil(i/2) are X and floor(i/2) are O; entry i has X to move exactly
\* when i is even; and for i > 0 the board of entry i differs from the board
\* of entry i-1 in exactly one square, which was empty in entry i-1.
C18_HistoryEntries ==
  /\ history[1] = [board |-> getEmptyBoard, xIsNext |-> TRUE]
  /\ \A i \in 0..(Len(history) - 1) :
       LET entry == history[i + 1]
       IN /\ Count(entry.board, null) = 9 - i
          /\ Count(entry.board, PLAYER_X) = (i + 1) \div 2
          /\ Count(entry.board, PLAYER_O) = i \div 2
          /\ entry.xIsNext <=> i % 2 = 0
          /\ i > 0 =>
               LET diff == {c \in Cells : entry.board[c] # history[i].board[c]}
               IN /\ Cardinality(diff) = 1
                  /\ \A c \in diff : history[i].board[c] = null

\* the AI has just made the fourth move of O of a game
C18_Witness ==
  /\ lastOp.op = "ai"
  /\ Len(history) = 9
  /\ stepNumber = 8

\* ------------------------------------------------------------------ C19
\* C19: in every reachable state only the last entry of history can be
\* finished: for every index i < history.length - 1 calculateWinner gives
\* the board of entry i as ongoing, also after a jumpTo followed by a move
\* that cuts the history and extends it again.
C19_OnlyLastEntryTerminal ==
  \A i \in 0..(Len(history) - 2) :
    calculateWinner(history[i + 1].board).winner = null

\* after a jump back, a move that cut the history has just ended the game
\* again in two-player mode
C19_Witness ==
  /\ lastOp.op = "move"
  /\ lastOp.cut > 0
  /\ mode = MODE_TWO_PLAYER
  /\ stepNumber = Len(history) - 1
  /\ winner # null

\* ------------------------------------------------------------------ C20
\* jumpTo(k) has just run in single-player mode, to a step k before the last
\* one whose board is ongoing with O to move, and nothing has happened since
JumpedBackToAITurn ==
  /\ lastOp.op = "jump"
  /\ lastOp.step = stepNumber
  /\ stepNumber < Len(history) - 1
  /\ AITurn

\* C20: in single-player mode, after jumpTo(k) to a step whose board is
\* ongoing with O to move and k < history.length - 1, unless another user
\* action comes first the AI move is eventually played again from step k
\* (the timeout being fair): the step that ends the wait without a user
\* action is the AI's move, after which history has length k + 2 and is the
\* old history up to its entry k + 1 (the same board as before the jump),
\* stepNumber is k + 1, and the entries after index k + 1 are gone.
C20_JumpBackReplaysAIMove ==
  /\ [][(JumpedBackToAITurn /\ lastOp'.op \in {"ai", "aiNone"}) =>
          /\ lastOp'.op = "ai"
          /\ Len(history') = stepNumber + 2
          /\ history' = SubSeq(history, 1, stepNumber + 2)
          /\ stepNumber' = stepNumber + 1
          /\ lastOp'.cut = Len(history) - stepNumber - 1]_vars
  /\ JumpedBackToAITurn ~>
       \/ lastOp.op = "ai" /\ stepNumber = Len(history) - 1 /\ lastOp.cut > 0
       \/ lastOp.op \notin {"jump", "ai", "aiNone"}
       \/ lastOp.op = "jump" /\ ~JumpedBackToAITurn

\* the AI has just played again from step 1 after a jump back: its earlier
\* answer and the two entries after it were dropped
C20_Witness ==
  /\ lastOp.op = "ai"
  /\ lastOp.cut = 3
  /\ stepNumber = 2
  /\ Len(history) = 3

====
